---- MODULE Spec2Model ----
(***************************************************************************)
(* ezmesh/geometry.py: the two-phase transaction protocol of the mesh      *)
(* entities (Point, Line, TransfiniteLine, CurveLoop, PlaneSurface,        *)
(* TransfinitePlaneSurface, BoundaryLayer) and the Geometry session that   *)
(* drives it against the gmsh kernel.                                      *)
(*                                                                         *)
(* The kernel is an external collaborator.  Every call the code makes to   *)
(* it is appended to klog, and the kernel either answers (handing out the  *)
(* next free tag of the entity kind) or fails, nondeterministically.  A    *)
(* method of the code is an operator from a store record to a store        *)
(* record; a raised exception is the store's exc field, which every later  *)
(* statement passes through unchanged, as Python unwinds the call stack.   *)
(***************************************************************************)
EXTENDS Integers, Sequences, FiniteSets, TLC

\* ------------------------------------------------------------------ bounds
\* Steps the caller takes in one behaviour of the entity protocol: calls of
\* generate, before_sync and after_sync, and except clauses.
MaxSteps == 3
\* Steps the caller takes in one behaviour of the session: with blocks
\* entered, calls of generate and write, and except clauses.
MaxSessionSteps == 4
\* The longest coords array handed to get_points_and_lines.
MaxCoords == 3

\* ---------------------------------------------------------------- entities
Points == {"p0", "p1", "p2", "p3"}
Lines == {"l0", "l1", "l2", "l3"}
Loops == {"c0", "c1"}
Surfaces == {"s0"}
Fields == {"f0"}
Ents == Points \cup Lines \cup Loops \cup Surfaces \cup Fields
\* The Geometry objects of the caller.  The class has no fields and its
\* methods read nothing of self: every Geometry object behaves as this one.
Geos == {"g1"}

\* Optional[...] attributes: None, as a label and as a number.
NoLabel == "<None>"
NoneVal == -1
\* Python truthiness of an Optional[str] (`if line.label:`) and of an
\* Optional[float] / bool (`if self.hfar:`).
TruthyStr(s) == s # NoLabel /\ s # ""
TruthyNum(v) == v # NoneVal /\ v # 0

\* DimType.value
DimCurve == 1
DimSurface == 2

\* ------------------------------------------------------------------ graphs
\* Entity graphs the caller has built in memory (dataclass fields, set by the
\* constructors and never assigned afterwards).  roots: the arguments the
\* caller passes to generate; direct: the entities whose before_sync and
\* after_sync the caller also calls itself.

\* spec section 8, end-to-end: a unit square of four TransfiniteLines, two
\* opposite sides labelled "wall", one transfinite quad surface "domain".
GraphSquare ==
  [ ents |-> {"p0", "p1", "p2", "p3", "l0", "l1", "l2", "l3", "c0", "s0"},
    cls |-> [p0 |-> "Point", p1 |-> "Point", p2 |-> "Point", p3 |-> "Point",
             l0 |-> "TransfiniteLine", l1 |-> "TransfiniteLine",
             l2 |-> "TransfiniteLine", l3 |-> "TransfiniteLine",
             c0 |-> "CurveLoop", s0 |-> "TransfinitePlaneSurface"],
    coord |-> [p0 |-> <<0, 0>>, p1 |-> <<1, 0>>, p2 |-> <<1, 1>>, p3 |-> <<0, 1>>],
    mesh_size |-> [p0 |-> 1, p1 |-> 1, p2 |-> 1, p3 |-> 1],
    start |-> [l0 |-> "p0", l1 |-> "p1", l2 |-> "p2", l3 |-> "p3"],
    end |-> [l0 |-> "p1", l1 |-> "p2", l2 |-> "p3", l3 |-> "p0"],
    label |-> [l0 |-> "wall", l1 |-> NoLabel, l2 |-> "wall", l3 |-> NoLabel,
               s0 |-> "domain"],
    cell_count |-> [l0 |-> 10, l1 |-> 10, l2 |-> 10, l3 |-> 10],
    mesh_type |-> [l0 |-> "Progression", l1 |-> "Progression",
                   l2 |-> "Progression", l3 |-> "Progression"],
    coeff |-> [l0 |-> 1, l1 |-> 1, l2 |-> 1, l3 |-> 1],
    lines |-> [c0 |-> <<"l0", "l1", "l2", "l3">>],
    fields |-> [c0 |-> <<>>],
    outlines |-> [s0 |-> <<"c0">>],
    holes |-> [s0 |-> <<>>],
    is_quad_mesh |-> [s0 |-> TRUE],
    corners |-> [s0 |-> <<"p0", "p1", "p2", "p3">>],
    attrs |-> <<>>,
    roots |-> {[list |-> FALSE, items |-> <<"s0">>],
               [list |-> TRUE, items |-> <<"c0", "s0">>]},
    direct |-> {"p0", "l0", "s0"} ]

\* spec section 8, label aggregation: one loop whose lines carry the labels
\* A, A, B, None, with a boundary layer attached, bounding a plain surface.
GraphLabels ==
  [ ents |-> {"p0", "p1", "p2", "p3", "l0", "l1", "l2", "l3", "c0", "s0", "f0"},
    cls |-> [p0 |-> "Point", p1 |-> "Point", p2 |-> "Point", p3 |-> "Point",
             l0 |-> "Line", l1 |-> "TransfiniteLine",
             l2 |-> "Line", l3 |-> "Line",
             c0 |-> "CurveLoop", s0 |-> "PlaneSurface", f0 |-> "BoundaryLayer"],
    coord |-> [p0 |-> <<0, 0>>, p1 |-> <<2, 0, 0>>, p2 |-> <<2, 2>>, p3 |-> <<0, 2, 1>>],
    mesh_size |-> [p0 |-> 1, p1 |-> 2, p2 |-> 1, p3 |-> 2],
    start |-> [l0 |-> "p0", l1 |-> "p1", l2 |-> "p2", l3 |-> "p3"],
    end |-> [l0 |-> "p1", l1 |-> "p2", l2 |-> "p3", l3 |-> "p0"],
    label |-> [l0 |-> "A", l1 |-> "A", l2 |-> "B", l3 |-> NoLabel,
               s0 |-> NoLabel],
    cell_count |-> [l1 |-> 4],
    mesh_type |-> [l1 |-> "Bump"],
    coeff |-> [l1 |-> 2],
    lines |-> [c0 |-> <<"l0", "l1", "l2", "l3">>],
    fields |-> [c0 |-> <<"f0">>],
    outlines |-> [s0 |-> <<"c0">>],
    holes |-> [s0 |-> <<>>],
    is_quad_mesh |-> [s0 |-> FALSE, f0 |-> TRUE],
    corners |-> <<>>,
    attrs |-> [f0 |-> [aniso_max |-> NoneVal, hfar |-> 3, hwall_n |-> 0,
                       ratio |-> NoneVal, thickness |-> 2,
                       intersect_metrics |-> 0]],
    roots |-> {[list |-> FALSE, items |-> <<"s0">>],
               [list |-> TRUE, items |-> <<"s0", "c0">>]},
    direct |-> {"l1", "c0", "f0"} ]

\* A surface with a hole: the outline p0->p1->p2->p0 and the hole p0->p1->p0
\* share the Line l0 (and the Points p0, p1), and both carry the label "A".
GraphHole ==
  [ ents |-> {"p0", "p1", "p2", "l0", "l1", "l2", "l3", "c0", "c1", "s0"},
    cls |-> [p0 |-> "Point", p1 |-> "Point", p2 |-> "Point",
             l0 |-> "Line", l1 |-> "Line", l2 |-> "Line", l3 |-> "TransfiniteLine",
             c0 |-> "CurveLoop", c1 |-> "CurveLoop", s0 |-> "PlaneSurface"],
    coord |-> [p0 |-> <<0, 0>>, p1 |-> <<1, 0>>, p2 |-> <<1, 1>>],
    mesh_size |-> [p0 |-> 1, p1 |-> 1, p2 |-> 1],
    start |-> [l0 |-> "p0", l1 |-> "p1", l2 |-> "p2", l3 |-> "p1"],
    end |-> [l0 |-> "p1", l1 |-> "p2", l2 |-> "p0", l3 |-> "p0"],
    label |-> [l0 |-> "A", l1 |-> "", l2 |-> NoLabel, l3 |-> "A",
               s0 |-> ""],
    cell_count |-> [l3 |-> 1],
    mesh_type |-> [l3 |-> "Progression"],
    coeff |-> [l3 |-> 1],
    lines |-> [c0 |-> <<"l0", "l1", "l2">>, c1 |-> <<"l0", "l3">>],
    fields |-> [c0 |-> <<>>, c1 |-> <<>>],
    outlines |-> [s0 |-> <<"c0">>],
    holes |-> [s0 |-> <<"c1">>],
    is_quad_mesh |-> [s0 |-> FALSE],
    corners |-> <<>>,
    attrs |-> <<>>,
    roots |-> {[list |-> FALSE, items |-> <<"s0">>],
               [list |-> TRUE, items |-> <<"c1", "c0">>]},
    direct |-> {"l0", "c1", "s0"} ]

\* spec section 8, closure check: the lines p0->p1, p2->p3 do not close.
GraphOpen ==
  [ ents |-> {"p0", "p1", "p2", "p3", "l0", "l1", "c0"},
    cls |-> [p0 |-> "Point", p1 |-> "Point", p2 |-> "Point", p3 |-> "Point",
             l0 |-> "Line", l1 |-> "Line", c0 |-> "CurveLoop"],
    coord |-> [p0 |-> <<0, 0>>, p1 |-> <<1, 0>>, p2 |-> <<1, 1>>, p3 |-> <<0, 1>>],
    mesh_size |-> [p0 |-> 1, p1 |-> 1, p2 |-> 1, p3 |-> 1],
    start |-> [l0 |-> "p0", l1 |-> "p2"],
    end |-> [l0 |-> "p1", l1 |-> "p3"],
    label |-> [l0 |-> NoLabel, l1 |-> NoLabel],
    cell_count |-> <<>>,
    mesh_type |-> <<>>,
    coeff |-> <<>>,
    lines |-> [c0 |-> <<"l0", "l1">>],
    fields |-> [c0 |-> <<>>],
    outlines |-> <<>>,
    holes |-> <<>>,
    is_quad_mesh |-> <<>>,
    corners |-> <<>>,
    attrs |-> <<>>,
    roots |-> {[list |-> FALSE, items |-> <<"c0">>],
               [list |-> TRUE, items |-> <<"l0", "l1">>]},
    direct |-> {"p0", "p2", "l1", "c0"} ]

\* One TransfiniteLine between two Points, the line being the root.
GraphSegment ==
  [ ents |-> {"p0", "p1", "l0"},
    cls |-> [p0 |-> "Point", p1 |-> "Point", l0 |-> "TransfiniteLine"],
    coord |-> [p0 |-> <<0, 0>>, p1 |-> <<1, 0>>],
    mesh_size |-> [p0 |-> 1, p1 |-> 1],
    start |-> [l0 |-> "p0"],
    end |-> [l0 |-> "p1"],
    label |-> [l0 |-> NoLabel],
    cell_count |-> [l0 |-> 4],
    mesh_type |-> [l0 |-> "Progression"],
    coeff |-> [l0 |-> 1],
    lines |-> <<>>,
    fields |-> <<>>,
    outlines |-> <<>>,
    holes |-> <<>>,
    is_quad_mesh |-> <<>>,
    corners |-> <<>>,
    attrs |-> <<>>,
    roots |-> {[list |-> FALSE, items |-> <<"l0">>]},
    direct |-> {"p1", "l0"} ]

Graphs == <<GraphSquare, GraphLabels, GraphHole, GraphOpen, GraphSegment>>
\* The graph the session behaviours run on.
SessionGraph == Len(Graphs)

VARIABLES
  scn,                    \* which of Graphs the caller built
  tag,                    \* MeshTransaction.tag of each entity (0: None)
  before_sync_initiated,  \* MeshTransaction.before_sync_initiated
  after_sync_initiated,   \* MeshTransaction.after_sync_initiated
  line_tags,              \* CurveLoop.line_tags
  klog,                   \* every call issued to the kernel, in order
  scopes,                 \* the `with Geometry()` blocks entered and not yet left
  raised,                 \* an exception is propagating in the caller
  gens,                   \* the generate calls made so far, in order
  steps,                  \* steps the caller has taken
  gpl_args,               \* the arguments of a get_points_and_lines call
  gpl_ret                 \* what that call returned, once it was made

vars == <<scn, tag, before_sync_initiated, after_sync_initiated, line_tags,
          klog, scopes, raised, gens, steps, gpl_args, gpl_ret>>

G == Graphs[scn]
cls(e) == G.cls[e]
X(p) == G.coord[p][1]
Y(p) == G.coord[p][2]
Z(p) == IF Len(G.coord[p]) = 3 THEN G.coord[p][3] ELSE 0
curve_loops(s) == G.outlines[s] \o G.holes[s]

\* ------------------------------------------------------------------ kernel
\* The store a method runs on: the entities' fields, the kernel's call log,
\* the exception state, and the kernel calls left before one fails (0: none
\* fails).  ret is the value the last kernel call returned; gen numbers the
\* generate call the method runs in (0: called by the caller directly) and
\* step the caller's step.
Store(fuel, gen) ==
  [ tag |-> tag, bsi |-> before_sync_initiated, asi |-> after_sync_initiated,
    line_tags |-> line_tags, log |-> klog, exc |-> FALSE, fuel |-> fuel,
    ret |-> 0, gen |-> gen, step |-> steps + 1 ]

\* The kernel calls that return a fresh tag.
TagCalls == {"add_point", "add_line", "add_curve_loop", "add_plane_surface",
             "add_physical_group", "field.add"}

\* Index of the last successful initialize (0: none): the kernel's model, and
\* with it every tag counter, starts empty there.
LastInit(log) ==
  IF \E i \in 1..Len(log) : log[i].call = "initialize" /\ log[i].ok
  THEN CHOOSE i \in 1..Len(log) :
         /\ log[i].call = "initialize" /\ log[i].ok
         /\ \A j \in (i + 1)..Len(log) : ~(log[j].call = "initialize" /\ log[j].ok)
  ELSE 0

\* The tag the kernel hands out: one more than the entities of that kind (for
\* physical groups: of that dimension) created in the current kernel model.
NextTag(log, call, args) ==
  1 + Cardinality({i \in (LastInit(log) + 1)..Len(log) :
        /\ log[i].call = call
        /\ log[i].ok
        /\ (call = "add_physical_group" => log[i].args[1] = args[1])})

\* The kernel call returns ret.
KernelReturns(st, by, call, args, name, ret) ==
  [st EXCEPT !.log = Append(@, [gen |-> st.gen, step |-> st.step, by |-> by,
                                call |-> call, args |-> args, name |-> name,
                                ok |-> TRUE, ret |-> ret]),
             !.fuel = IF @ > 0 THEN @ - 1 ELSE 0,
             !.ret = ret]

\* The kernel call raises.
KernelRaises(st, by, call, args, name) ==
  [st EXCEPT !.log = Append(@, [gen |-> st.gen, step |-> st.step, by |-> by,
                                call |-> call, args |-> args, name |-> name,
                                ok |-> FALSE, ret |-> 0]),
             !.exc = TRUE,
             !.fuel = 0,
             !.ret = 0]

\* One call to the kernel, issued by entity (or Geometry object) `by`.  A
\* statement reached while an exception propagates is not executed.
Kernel(st, by, call, args, name) ==
  IF st.exc THEN st
  ELSE IF st.fuel = 1 THEN KernelRaises(st, by, call, args, name)
  ELSE KernelReturns(st, by, call, args, name,
                     IF call \in TagCalls THEN NextTag(st.log, call, args) ELSE 0)

\* self.tag = <the value the kernel call returned>
SetTag(st, e) == IF st.exc THEN st ELSE [st EXCEPT !.tag[e] = st.ret]

\* ------------------------------------------------------- MeshTransaction
MeshTransaction_before_sync(st, e) ==
  IF st.exc THEN st ELSE [st EXCEPT !.bsi[e] = TRUE]

MeshTransaction_after_sync(st, e) ==
  IF st.exc THEN st ELSE [st EXCEPT !.asi[e] = TRUE]

\* ------------------------------------------------------------------ Field
Field_before_sync(st, f, c) == MeshTransaction_before_sync(st, f)

Field_after_sync(st, f, c) == MeshTransaction_after_sync(st, f)

\* ------------------------------------------------------------------ Point
\* self.tag = gmsh.model.geo.add_point(self.x, self.y, self.z, self.mesh_size)
Point_add_point(st, p) ==
  SetTag(Kernel(st, p, "add_point", <<X(p), Y(p), Z(p), G.mesh_size[p]>>, ""), p)

\* Point.before_sync without its before_sync_initiated guard.
Point_before_sync_Unguarded(st, p) ==
  IF st.exc THEN st
  ELSE MeshTransaction_before_sync(Point_add_point(st, p), p)

Point_before_sync(st, p) ==
  IF st.exc THEN st
  ELSE MeshTransaction_before_sync(
         IF ~st.bsi[p] THEN Point_add_point(st, p) ELSE st, p)

\* ------------------------------------------------------------------- Line
\* self.tag = gmsh.model.geo.add_line(self.start.tag, self.end.tag)
Line_add_line(st, l) ==
  SetTag(Kernel(st, l, "add_line", <<st.tag[G.start[l]], st.tag[G.end[l]]>>, ""), l)

Line_before_sync(st, l) ==
  IF st.exc THEN st
  ELSE MeshTransaction_before_sync(
         IF ~st.bsi[l]
         THEN Line_add_line(
                Point_before_sync(Point_before_sync(st, G.start[l]), G.end[l]), l)
         ELSE st, l)

\* Line defines no after_sync: MeshTransaction's is inherited.
Line_after_sync(st, l) == MeshTransaction_after_sync(st, l)

\* -------------------------------------------------------- TransfiniteLine
\* after_sync that passes cell_count as the node count.
TransfiniteLine_after_sync_CellCount(st, l) ==
  IF st.exc THEN st
  ELSE MeshTransaction_after_sync(
         IF ~st.asi[l]
         THEN Kernel(st, l, "set_transfinite_curve",
                     <<st.tag[l], G.cell_count[l], G.coeff[l]>>, G.mesh_type[l])
         ELSE st, l)

TransfiniteLine_after_sync(st, l) ==
  IF st.exc THEN st
  ELSE MeshTransaction_after_sync(
         IF ~st.asi[l]
         THEN Kernel(st, l, "set_transfinite_curve",
                     <<st.tag[l], G.cell_count[l] + 1, G.coeff[l]>>, G.mesh_type[l])
         ELSE st, l)

\* line.after_sync(), dispatched on the line's class.
line_after_sync(st, l) ==
  IF cls(l) = "TransfiniteLine" THEN TransfiniteLine_after_sync(st, l)
  ELSE Line_after_sync(st, l)

\* ---------------------------------------------------------- BoundaryLayer
\* if <attr>: gmsh.model.mesh.field.setNumber(self.tag, <key>, <attr>)
SetNumberIf(st, f, key, v) ==
  IF TruthyNum(v) THEN Kernel(st, f, "field.setNumber", <<st.tag[f], v>>, key)
  ELSE st

BoolNum(b) == IF b THEN 1 ELSE 0

\* self.tag = gmsh.model.mesh.field.add('BoundaryLayer')
BoundaryLayer_field_add(st, f) ==
  SetTag(Kernel(st, f, "field.add", <<>>, "BoundaryLayer"), f)

\* gmsh.model.mesh.field.setNumbers(self.tag, 'CurvesList', curve_loop.line_tags)
BoundaryLayer_CurvesList(st, f, c) ==
  Kernel(st, f, "field.setNumbers", <<st.tag[f]>> \o st.line_tags[c], "CurvesList")

\* gmsh.model.mesh.field.setAsBoundaryLayer(self.tag)
BoundaryLayer_setAsBoundaryLayer(st, f) ==
  Kernel(st, f, "field.setAsBoundaryLayer", <<st.tag[f]>>, "")

\* The statements under `if not self.after_sync_initiated:`, first to last
\* (the innermost call runs first).
BoundaryLayer_after_sync_body(st, f, c) ==
  BoundaryLayer_setAsBoundaryLayer(
    SetNumberIf(
      SetNumberIf(
        SetNumberIf(
          SetNumberIf(
            SetNumberIf(
              SetNumberIf(
                SetNumberIf(
                  BoundaryLayer_CurvesList(BoundaryLayer_field_add(st, f), f, c),
                  f, "AnisoMax", G.attrs[f].aniso_max),
                f, "IntersectMetrics", G.attrs[f].intersect_metrics),
              f, "Quads", BoolNum(G.is_quad_mesh[f])),
            f, "hfar", G.attrs[f].hfar),
          f, "hwall_n", G.attrs[f].hwall_n),
        f, "ratio", G.attrs[f].ratio),
      f, "thickness", G.attrs[f].thickness),
    f)

BoundaryLayer_after_sync(st, f, c) ==
  IF st.exc THEN st
  ELSE Field_after_sync(
         IF ~st.asi[f] THEN BoundaryLayer_after_sync_body(st, f, c) ELSE st, f, c)

\* -------------------------------------------------------------- CurveLoop
\* self.line_tags.append(line.tag)
CurveLoop_line_tags_append(st, c, l) ==
  IF st.exc THEN st ELSE [st EXCEPT !.line_tags[c] = Append(@, st.tag[l])]

\* for line in self.lines: line.before_sync(); self.line_tags.append(line.tag)
RECURSIVE CurveLoop_before_sync_lines(_, _, _)
CurveLoop_before_sync_lines(st, c, i) ==
  IF st.exc \/ i > Len(G.lines[c]) THEN st
  ELSE CurveLoop_before_sync_lines(
         CurveLoop_line_tags_append(Line_before_sync(st, G.lines[c][i]), c, G.lines[c][i]),
         c, i + 1)

\* for field in self.fields: field.before_sync(self)
RECURSIVE CurveLoop_before_sync_fields(_, _, _)
CurveLoop_before_sync_fields(st, c, i) ==
  IF st.exc \/ i > Len(G.fields[c]) THEN st
  ELSE CurveLoop_before_sync_fields(Field_before_sync(st, G.fields[c][i], c), c, i + 1)

\* self.tag = gmsh.model.geo.add_curve_loop(self.line_tags)
CurveLoop_add_curve_loop(st, c) ==
  SetTag(Kernel(st, c, "add_curve_loop", st.line_tags[c], ""), c)

CurveLoop_before_sync(st, c) ==
  IF st.exc THEN st
  ELSE MeshTransaction_before_sync(
         IF ~st.bsi[c]
         THEN CurveLoop_before_sync_fields(
                CurveLoop_add_curve_loop(CurveLoop_before_sync_lines(st, c, 1), c), c, 1)
         ELSE st, c)

\* The dict line_group_tags: its keys in insertion order, and its values.
EmptyDict == [keys |-> <<>>, val |-> <<>>]

\* The grouping without the `if line.label not in line_group_tags` test: a
\* fresh group for every labelled line.
DictAppend_Fresh(d, k, v) ==
  [keys |-> Append(d.keys, k), val |-> Append(d.val, <<v>>)]

DictAppend(d, k, v) ==
  IF \E i \in 1..Len(d.keys) : d.keys[i] = k
  THEN [d EXCEPT !.val[CHOOSE i \in 1..Len(d.keys) : d.keys[i] = k] = Append(@, v)]
  ELSE [keys |-> Append(d.keys, k), val |-> Append(d.val, <<v>>)]

\* The grouping without the `if line.label:` test: unlabelled lines are
\* grouped under None.
line_group_tags_append_AnyLabel(d, st, l) == DictAppend(d, G.label[l], st.tag[l])

\* if line.label: line_group_tags[line.label].append(line.tag)
line_group_tags_append(d, st, l) ==
  IF TruthyStr(G.label[l]) THEN DictAppend(d, G.label[l], st.tag[l]) ELSE d

\* for line in self.lines: (group the line's tag under its label);
\* line.after_sync().  acc = [st, d].
RECURSIVE CurveLoop_after_sync_lines(_, _, _)
CurveLoop_after_sync_lines(acc, c, i) ==
  IF acc.st.exc \/ i > Len(G.lines[c]) THEN acc
  ELSE CurveLoop_after_sync_lines(
         [st |-> line_after_sync(acc.st, G.lines[c][i]),
          d |-> line_group_tags_append(acc.d, acc.st, G.lines[c][i])], c, i + 1)

\* gmsh.model.set_physical_name(dim, physical_group_tag, label), with the tag
\* the add_physical_group before it returned.
set_physical_name(st, e, dim, label) ==
  Kernel(st, e, "set_physical_name", <<dim, st.ret>>, label)

\* for (label, group_tags) in line_group_tags.items(): add_physical_group,
\* set_physical_name
RECURSIVE CurveLoop_after_sync_groups(_, _, _, _)
CurveLoop_after_sync_groups(st, c, d, i) ==
  IF st.exc \/ i > Len(d.keys) THEN st
  ELSE CurveLoop_after_sync_groups(
         set_physical_name(
           Kernel(st, c, "add_physical_group", <<DimCurve>> \o d.val[i], ""),
           c, DimCurve, d.keys[i]),
         c, d, i + 1)

\* The loop over line_group_tags.items(), on the dict the loop over the lines
\* built.
CurveLoop_after_sync_items(acc, c) == CurveLoop_after_sync_groups(acc.st, c, acc.d, 1)

\* for field in self.fields: field.after_sync(self)
RECURSIVE CurveLoop_after_sync_fields(_, _, _)
CurveLoop_after_sync_fields(st, c, i) ==
  IF st.exc \/ i > Len(G.fields[c]) THEN st
  ELSE CurveLoop_after_sync_fields(
         BoundaryLayer_after_sync(st, G.fields[c][i], c), c, i + 1)

\* The fields refined before the groups are created.
CurveLoop_after_sync_fields_items(acc, c) ==
  CurveLoop_after_sync_groups(CurveLoop_after_sync_fields(acc.st, c, 1), c, acc.d, 1)

\* after_sync that refines the attached fields before it creates the groups.
CurveLoop_after_sync_FieldsFirst(st, c) ==
  IF st.exc THEN st
  ELSE MeshTransaction_after_sync(
         IF ~st.asi[c]
         THEN CurveLoop_after_sync_fields_items(
                CurveLoop_after_sync_lines([st |-> st, d |-> EmptyDict], c, 1), c)
         ELSE st, c)

CurveLoop_after_sync(st, c) ==
  IF st.exc THEN st
  ELSE MeshTransaction_after_sync(
         IF ~st.asi[c]
         THEN CurveLoop_after_sync_fields(
                CurveLoop_after_sync_items(
                  CurveLoop_after_sync_lines([st |-> st, d |-> EmptyDict], c, 1), c),
                c, 1)
         ELSE st, c)

\* ----------------------------------------------------------- PlaneSurface
\* curve_loop_tags.append(curve_loop.tag)
curve_loop_tags_append(tags, st, c) ==
  [st |-> st, tags |-> Append(tags, st.tag[c])]

\* for curve_loop in self.curve_loops: curve_loop.before_sync();
\* curve_loop_tags.append(curve_loop.tag).  acc = [st, tags].
RECURSIVE PlaneSurface_before_sync_loops(_, _, _)
PlaneSurface_before_sync_loops(acc, s, i) ==
  IF acc.st.exc \/ i > Len(curve_loops(s)) THEN acc
  ELSE PlaneSurface_before_sync_loops(
         curve_loop_tags_append(acc.tags,
                                CurveLoop_before_sync(acc.st, curve_loops(s)[i]),
                                curve_loops(s)[i]),
         s, i + 1)

\* self.tag = gmsh.model.geo.add_plane_surface(curve_loop_tags)
PlaneSurface_add_plane_surface(acc, s) ==
  SetTag(Kernel(acc.st, s, "add_plane_surface", acc.tags, ""), s)

PlaneSurface_before_sync(st, s) ==
  IF st.exc THEN st
  ELSE MeshTransaction_before_sync(
         IF ~st.bsi[s]
         THEN PlaneSurface_add_plane_surface(
                PlaneSurface_before_sync_loops([st |-> st, tags |-> <<>>], s, 1), s)
         ELSE st, s)

\* for curve_loop in self.curve_loops: curve_loop.after_sync()
RECURSIVE PlaneSurface_after_sync_loops(_, _, _)
PlaneSurface_after_sync_loops(st, s, i) ==
  IF st.exc \/ i > Len(curve_loops(s)) THEN st
  ELSE PlaneSurface_after_sync_loops(
         CurveLoop_after_sync(st, curve_loops(s)[i]), s, i + 1)

\* if self.label is not None: add_physical_group, set_physical_name
PlaneSurface_after_sync_label(st, s) ==
  IF G.label[s] # NoLabel
  THEN set_physical_name(
         Kernel(st, s, "add_physical_group", <<DimSurface, st.tag[s]>>, ""),
         s, DimSurface, G.label[s])
  ELSE st

\* if self.is_quad_mesh: gmsh.model.mesh.set_recombine(2, self.tag)
PlaneSurface_after_sync_recombine(st, s) ==
  IF G.is_quad_mesh[s]
  THEN Kernel(st, s, "set_recombine", <<2, st.tag[s]>>, "")
  ELSE st

PlaneSurface_after_sync(st, s) ==
  IF st.exc THEN st
  ELSE MeshTransaction_after_sync(
         IF ~st.asi[s]
         THEN PlaneSurface_after_sync_recombine(
                PlaneSurface_after_sync_label(
                  PlaneSurface_after_sync_loops(st, s, 1), s), s)
         ELSE st, s)

\* ------------------------------------------------ TransfinitePlaneSurface
\* corner_tags: the tag of every corner, in declared order.
CornerTags(st, s) == [i \in 1..Len(G.corners[s]) |-> st.tag[G.corners[s][i]]]

TransfinitePlaneSurface_after_sync(st, s) ==
  IF st.exc THEN st
  ELSE PlaneSurface_after_sync(
         IF ~st.asi[s]
         THEN Kernel(st, s, "set_transfinite_surface",
                     <<st.tag[s]>> \o CornerTags(st, s), "")
         ELSE st, s)

\* ------------------------------------------------------- method dispatch
\* The owning loop of a field (fields are attached to exactly one loop).
OwnerLoop(f) == CHOOSE c \in Loops \cap G.ents : \E i \in 1..Len(G.fields[c]) : G.fields[c][i] = f

\* transaction.before_sync(), as generate calls it (no argument): a Field's
\* before_sync takes the loop as a required argument, so the call raises
\* TypeError before the method body runs.
before_sync(st, e) ==
  IF st.exc THEN st
  ELSE CASE cls(e) = "Point" -> Point_before_sync(st, e)
         [] cls(e) \in {"Line", "TransfiniteLine"} -> Line_before_sync(st, e)
         [] cls(e) = "CurveLoop" -> CurveLoop_before_sync(st, e)
         [] cls(e) \in {"PlaneSurface", "TransfinitePlaneSurface"} ->
              PlaneSurface_before_sync(st, e)
         [] OTHER -> [st EXCEPT !.exc = TRUE]

\* transaction.after_sync(); a Point inherits MeshTransaction's.
after_sync(st, e) ==
  IF st.exc THEN st
  ELSE CASE cls(e) = "Point" -> MeshTransaction_after_sync(st, e)
         [] cls(e) = "Line" -> Line_after_sync(st, e)
         [] cls(e) = "TransfiniteLine" -> TransfiniteLine_after_sync(st, e)
         [] cls(e) = "CurveLoop" -> CurveLoop_after_sync(st, e)
         [] cls(e) = "PlaneSurface" -> PlaneSurface_after_sync(st, e)
         [] cls(e) = "TransfinitePlaneSurface" ->
              TransfinitePlaneSurface_after_sync(st, e)
         [] OTHER -> [st EXCEPT !.exc = TRUE]

\* --------------------------------------------------------------- Geometry
Geometry_enter(st, g) == Kernel(st, g, "initialize", <<>>, "")

\* The exception that leaves __exit__: the one gmsh.finalize() raised, or
\* else (the method returns None) the one that was leaving the block.
exit_propagates(st, exc_type) == [st EXCEPT !.exc = st.exc \/ exc_type]

\* __exit__ that finalizes only when the block ended normally.
Geometry_exit_OnSuccessOnly(st, g, exc_type) ==
  IF exc_type THEN [st EXCEPT !.exc = TRUE]
  ELSE Kernel([st EXCEPT !.exc = FALSE], g, "finalize", <<>>, "")

\* __exit__ that also takes the entities back to their unconstructed state.
Geometry_exit_ResetEntities(st, g, exc_type) ==
  [exit_propagates(Kernel([st EXCEPT !.exc = FALSE], g, "finalize", <<>>, ""), exc_type)
     EXCEPT !.bsi = [e \in Ents |-> FALSE],
            !.asi = [e \in Ents |-> FALSE]]

\* __exit__(exc_type, exc_val, exc_tb): runs whether or not the block raised,
\* and returns None, so an exception of the block keeps propagating; an
\* exception of gmsh.finalize() leaves the method.
Geometry_exit(st, g, exc_type) ==
  exit_propagates(Kernel([st EXCEPT !.exc = FALSE], g, "finalize", <<>>, ""), exc_type)

\* transaction.before_sync() for each root
RECURSIVE generate_before(_, _, _)
generate_before(st, items, i) ==
  IF st.exc \/ i > Len(items) THEN st
  ELSE generate_before(before_sync(st, items[i]), items, i + 1)

\* transaction.after_sync() for each root
RECURSIVE generate_after(_, _, _)
generate_after(st, items, i) ==
  IF st.exc \/ i > Len(items) THEN st
  ELSE generate_after(after_sync(st, items[i]), items, i + 1)

\* gmsh.model.geo.synchronize()
synchronize(st, g) == Kernel(st, g, "synchronize", <<>>, "")

\* gmsh.model.mesh.generate(); gmsh.option.set_number("Mesh.SaveAll", 1);
\* return import_from_gmsh(gmsh.model)
generate_mesh(st, g) ==
  Kernel(Kernel(Kernel(st, g, "mesh.generate", <<>>, ""),
                g, "option.set_number", <<1>>, "Mesh.SaveAll"),
         g, "import_from_gmsh", <<>>, "")

\* generate that synchronizes after each root's before_sync and refines the
\* root at once, instead of constructing every root first.
RECURSIVE generate_PerRoot(_, _, _, _)
generate_PerRoot(st, g, items, i) ==
  IF st.exc \/ i > Len(items) THEN st
  ELSE generate_PerRoot(
         after_sync(synchronize(before_sync(st, items[i]), g), items[i]),
         g, items, i + 1)

Geometry_generate_PerRoot(st, g, roots) ==
  generate_mesh(generate_PerRoot(st, g, roots.items, 1), g)

\* generate that catches a failure of the construction phase and goes on.
Geometry_generate_Swallow(st, g, roots) ==
  generate_mesh(
    generate_after(
      synchronize([generate_before(st, roots.items, 1) EXCEPT !.exc = FALSE], g),
      roots.items, 1),
    g)

\* generate(transactions): transactions is one entity or a list of them; both
\* branches of isinstance(transactions, list) visit roots.items in order.
Geometry_generate(st, g, roots) ==
  generate_mesh(
    generate_after(synchronize(generate_before(st, roots.items, 1), g),
                   roots.items, 1),
    g)

Geometry_write(st, g) == Kernel(st, g, "write", <<>>, "filename")

\* ---------------------------------------------------- get_points_and_lines
\* The value of an argument: None, a number, a string or a list.
None == [k |-> "none"]
Num(n) == [k |-> "num", n |-> n]
Str(s) == [k |-> "str", s |-> s]
List(l) == [k |-> "list", l |-> l]

\* The truth value Python gives an argument in `if x` and `x if c else y`.
Truthy(x) ==
  CASE x.k = "none" -> FALSE
    [] x.k = "num" -> x.n # 0
    [] x.k = "str" -> x.s # ""
    [] x.k = "list" -> x.l # <<>>

\* x[idx] if isinstance(x, List) else x  (idx counts from 0): the value, and
\* whether the subscript raises IndexError.
ItemOrSelf(x, idx) ==
  CASE x.k = "list" -> x.l[idx + 1]
    [] x.k = "num" -> x.n
    [] x.k = "str" -> x.s

ItemRaises(x, idx) == x.k = "list" /\ idx >= Len(x.l)

\* Point(coord, mesh_size)
Point(coord, mesh_size) == [coord |-> coord, mesh_size |-> mesh_size]

\* Line(start=..., end=..., label=...); start and end are references to
\* Point instances, identified by their position in `points`.
Line(start, end, label) ==
  [cls |-> "Line", start |-> start, end |-> end, label |-> label,
   cell_count |-> NoneVal, mesh_type |-> "", coeff |-> NoneVal]

\* TransfiniteLine(start=..., end=..., label=..., cell_count=..., mesh_type=..., coeff=...)
TransfiniteLine(start, end, label, cell_count, mesh_type, coeff) ==
  [cls |-> "TransfiniteLine", start |-> start, end |-> end, label |-> label,
   cell_count |-> cell_count, mesh_type |-> mesh_type, coeff |-> coeff]

\* mesh_size = mesh_size[i] if isinstance(mesh_size, List) else mesh_size
\* (the assignment rebinds the argument itself).
gpl_mesh_size(st, i) ==
  IF st.mesh_size.k # "list" THEN st
  ELSE IF ItemRaises(st.mesh_size, i) THEN [st EXCEPT !.exc = TRUE]
  ELSE [st EXCEPT !.mesh_size = Num(st.mesh_size.l[i + 1])]

\* Closing point that is a new Point at the first coordinate instead of
\* points[0].
gpl_point_Duplicate(st, coords, i) ==
  IF st.exc THEN st
  ELSE IF i = Len(coords)
       THEN IF st.points = <<>> THEN [st EXCEPT !.exc = TRUE]
            ELSE [st EXCEPT !.points = Append(@, Point(coords[1], st.mesh_size.n)),
                            !.point = Len(st.points) + 1]
  ELSE [st EXCEPT !.points = Append(@, Point(coords[i + 1], st.mesh_size.n)),
                  !.point = Len(st.points) + 1]

\* if i == len(coords): point = points[0]
\* else: point = Point(coords[i], mesh_size); points.append(point)
gpl_point(st, coords, i) ==
  IF st.exc THEN st
  ELSE IF i = Len(coords)
       THEN IF st.points = <<>> THEN [st EXCEPT !.exc = TRUE]
            ELSE [st EXCEPT !.point = 1]
  ELSE [st EXCEPT !.points = Append(@, Point(coords[i + 1], st.mesh_size.n)),
                  !.point = Len(st.points) + 1]

\* label = (labels if isinstance(labels, str) else labels[line_index]) if labels else None
gpl_label(labels, line_index) ==
  IF Truthy(labels) THEN ItemOrSelf(labels, line_index) ELSE NoLabel

\* (mesh_types[line_index] if isinstance(mesh_types, List) else mesh_types)
\*   if mesh_types else "Progression"
gpl_mesh_type(mesh_types, line_index) ==
  IF Truthy(mesh_types) THEN ItemOrSelf(mesh_types, line_index) ELSE "Progression"

\* (mesh_coeffs[line_index] if isinstance(mesh_coeffs, List) else mesh_coeffs)
\*   if mesh_coeffs else 1.0
gpl_mesh_coeff(mesh_coeffs, line_index) ==
  IF Truthy(mesh_coeffs) THEN ItemOrSelf(mesh_coeffs, line_index) ELSE 1

\* One of the subscripts of the statements that build a line raises.
gpl_line_raises(a, line_index) ==
  \/ Truthy(a.labels) /\ ItemRaises(a.labels, line_index)
  \/ /\ Truthy(a.cell_counts)
     /\ \/ ItemRaises(a.cell_counts, line_index)
        \/ Truthy(a.mesh_types) /\ ItemRaises(a.mesh_types, line_index)
        \/ Truthy(a.mesh_coeffs) /\ ItemRaises(a.mesh_coeffs, line_index)

\* The line from points[i - 1] to point: a TransfiniteLine if cell_counts,
\* else a Line.
gpl_new_line(st, a, i) ==
  IF Truthy(a.cell_counts)
  THEN TransfiniteLine(i, st.point, gpl_label(a.labels, st.line_index),
                       ItemOrSelf(a.cell_counts, st.line_index),
                       gpl_mesh_type(a.mesh_types, st.line_index),
                       gpl_mesh_coeff(a.mesh_coeffs, st.line_index))
  ELSE Line(i, st.point, gpl_label(a.labels, st.line_index))

\* if i > 0: ...; lines.append(line); line_index += 1
gpl_line(st, a, i) ==
  IF st.exc \/ i = 0 THEN st
  ELSE IF gpl_line_raises(a, st.line_index) THEN [st EXCEPT !.exc = TRUE]
  ELSE [st EXCEPT !.lines = Append(@, gpl_new_line(st, a, i)),
                  !.line_index = @ + 1]

\* for i in range(len(coords) + 1): ...
RECURSIVE gpl_loop(_, _, _)
gpl_loop(st, a, i) ==
  IF st.exc \/ i > Len(a.coords) THEN st
  ELSE gpl_loop(gpl_line(gpl_point(gpl_mesh_size(st, i), a.coords, i), a, i), a, i + 1)

\* return points, lines  (or the IndexError that left the function)
gpl_return(st) ==
  IF st.exc THEN [state |-> "raised"]
  ELSE [state |-> "returned", points |-> st.points, lines |-> st.lines]

\* The arguments of a call, as one record.
gpl_call(coords, mesh_size, labels, cell_counts, mesh_types, mesh_coeffs) ==
  [state |-> "args", coords |-> coords, mesh_size |-> mesh_size, labels |-> labels,
   cell_counts |-> cell_counts, mesh_types |-> mesh_types, mesh_coeffs |-> mesh_coeffs]

get_points_and_lines(a) ==
  gpl_return(gpl_loop([mesh_size |-> a.mesh_size, points |-> <<>>, point |-> 0,
                       lines |-> <<>>, line_index |-> 0, exc |-> FALSE], a, 0))

\* No call of get_points_and_lines was made.
NoCall == [state |-> "none"]

\* ----------------------------------------------------------------- caller
\* The kernel session is live: the last successful initialize or finalize of
\* the log is an initialize.
KernelLive(log) ==
  LET I == {i \in 1..Len(log) : log[i].call \in {"initialize", "finalize"} /\ log[i].ok}
  IN I # {} /\ log[CHOOSE i \in I : \A j \in I : j <= i].call = "initialize"

\* The failure points offered to a call that issues n kernel calls when none
\* fails: 0 (none fails) or the k-th call fails.
FailPoints(n) == 0..n

\* Write a method's resulting store back to the objects.
Commit(s) ==
  /\ tag' = s.tag
  /\ before_sync_initiated' = s.bsi
  /\ after_sync_initiated' = s.asi
  /\ line_tags' = s.line_tags
  /\ klog' = s.log
  /\ raised' = s.exc
  /\ UNCHANGED <<gpl_args, gpl_ret>>

Init ==
  /\ scn \in 1..Len(Graphs)
  /\ tag = [e \in Ents |-> 0]
  /\ before_sync_initiated = [e \in Ents |-> FALSE]
  /\ after_sync_initiated = [e \in Ents |-> FALSE]
  /\ line_tags = [c \in Loops |-> <<>>]
  /\ klog = <<>>
  /\ scopes = <<>>
  /\ raised = FALSE
  /\ gens = <<>>
  /\ steps = 0
  /\ gpl_args = NoCall
  /\ gpl_ret = NoCall

\* The caller's state after g.__enter__() ended in store s.
Entered(s, g) ==
  /\ Commit(s)
  /\ scopes' = IF s.exc THEN scopes ELSE Append(scopes, g)
  /\ steps' = steps + 1
  /\ UNCHANGED <<scn, gens>>

\* The caller's state after a call that cost it a step ended in store s.
Returned(s) ==
  /\ Commit(s)
  /\ steps' = steps + 1
  /\ UNCHANGED <<scn, scopes, gens>>

\* The caller's state after g.generate(roots) ended in store s.
Generated(s, g, roots) ==
  /\ Commit(s)
  /\ gens' = Append(gens, [g |-> g, items |-> roots.items,
                           list |-> roots.list, raised |-> s.exc])
  /\ steps' = steps + 1
  /\ UNCHANGED <<scn, scopes>>

\* The number of kernel calls a method issued, given the store it ended in
\* when none failed.
Calls(s) == Len(s.log) - Len(klog)

\* with g: ... (entering the block calls g.__enter__(); when it raises, the
\* block is not entered and __exit__ is not called).
Enter ==
  /\ ~raised
  /\ steps < MaxSessionSteps
  /\ \E g \in Geos : \E k \in FailPoints(1) :
       Entered(Geometry_enter(Store(k, 0), g), g)

\* The innermost with block ends normally: g.__exit__(None, None, None).
\* The block is left whether or not gmsh.finalize() raises.
Exit ==
  /\ ~raised
  /\ scopes # <<>>
  /\ \E k \in FailPoints(1) :
       Commit(Geometry_exit(Store(k, 0), scopes[Len(scopes)], FALSE))
  /\ scopes' = SubSeq(scopes, 1, Len(scopes) - 1)
  /\ UNCHANGED <<scn, gens, steps>>

\* An exception leaves the innermost with block: g.__exit__(type, val, tb),
\* after which it keeps propagating.
Unwind ==
  /\ raised
  /\ scopes # <<>>
  /\ \E k \in FailPoints(1) :
       Commit(Geometry_exit(Store(k, 0), scopes[Len(scopes)], TRUE))
  /\ scopes' = SubSeq(scopes, 1, Len(scopes) - 1)
  /\ UNCHANGED <<scn, gens, steps>>

\* The caller catches the propagating exception (try/except around the call,
\* inside or outside the with blocks still open).
HandleWithin(budget) ==
  /\ raised
  /\ steps < budget
  /\ raised' = FALSE
  /\ steps' = steps + 1
  /\ UNCHANGED <<scn, tag, before_sync_initiated, after_sync_initiated,
                 line_tags, klog, scopes, gens, gpl_args, gpl_ret>>

\* g.generate(roots), for a Geometry object g among gs.
GenerateBy(gs, budget) ==
  /\ ~raised
  /\ steps < budget
  /\ \E g \in gs : \E roots \in G.roots :
       \E k \in FailPoints(Calls(Geometry_generate(Store(0, Len(gens) + 1), g, roots))) :
         Generated(Geometry_generate(Store(k, Len(gens) + 1), g, roots), g, roots)

\* g.write(filename)
Write ==
  /\ ~raised
  /\ steps < MaxSessionSteps
  /\ \E g \in Geos : \E k \in FailPoints(1) :
       Returned(Geometry_write(Store(k, 0), g))

\* e.before_sync(), called by the caller on an entity of the graph (a field:
\* f.before_sync(loop), with the loop it is attached to).
direct_before_sync(st, e) ==
  IF e \in Fields THEN Field_before_sync(st, e, OwnerLoop(e))
  ELSE before_sync(st, e)

BeforeSync ==
  /\ ~raised
  /\ steps < MaxSteps
  /\ \E e \in G.direct :
       \E k \in FailPoints(Calls(direct_before_sync(Store(0, 0), e))) :
         Returned(direct_before_sync(Store(k, 0), e))

\* e.after_sync(), called by the caller on an entity of the graph (a field:
\* f.after_sync(loop), with the loop it is attached to).
direct_after_sync(st, e) ==
  IF e \in Fields THEN BoundaryLayer_after_sync(st, e, OwnerLoop(e))
  ELSE after_sync(st, e)

AfterSync ==
  /\ ~raised
  /\ steps < MaxSteps
  /\ \E e \in G.direct :
       \E k \in FailPoints(Calls(direct_after_sync(Store(0, 0), e))) :
         Returned(direct_after_sync(Store(k, 0), e))

\* The entity protocol: the caller drives the entities of its graph through
\* generate and through their own before_sync / after_sync, and may catch an
\* exception and go on.  No method of an entity, nor generate, reads anything
\* of the session, which these behaviours leave out.
Generate == GenerateBy(Geos, MaxSteps)

Handle == HandleWithin(MaxSteps)

Next ==
  \/ Generate
  \/ BeforeSync
  \/ AfterSync
  \/ Handle

Spec == Init /\ [][Next]_vars

\* The session: with blocks around generate and write.
SessionGenerate == GenerateBy(Geos, MaxSessionSteps)

SessionHandle == HandleWithin(MaxSessionSteps)

SessionNext ==
  \/ Enter
  \/ Exit
  \/ Unwind
  \/ SessionHandle
  \/ SessionGenerate
  \/ Write

SessionInit == Init /\ scn = SessionGraph

SessionSpec == SessionInit /\ [][SessionNext]_vars

\* The builder: one call of get_points_and_lines on arguments of the
\* declared types, the lists as long as coords.
CoordVals == {<<0, 0>>, <<1, 0>>}

MeshSizeArgs(n) == {Num(1), Num(2)} \cup {List(l) : l \in [1..n -> {1, 2}]}

LabelsArgs(n) == {None, Str(""), Str("a")} \cup {List(l) : l \in [1..n -> {"a", "b"}]}

CellCountsArgs(n) == {None, Num(0), Num(4), List([k \in 1..n |-> k + 1])}

MeshTypesArgs(n) ==
  {None, Str("Bump"), List([k \in 1..n |-> IF k % 2 = 1 THEN "Bump" ELSE "Progression"])}

MeshCoeffsArgs(n) == {None, Num(2), List([k \in 1..n |-> k + 1])}

BuilderInit ==
  /\ scn = 1
  /\ tag = [e \in Ents |-> 0]
  /\ before_sync_initiated = [e \in Ents |-> FALSE]
  /\ after_sync_initiated = [e \in Ents |-> FALSE]
  /\ line_tags = [c \in Loops |-> <<>>]
  /\ klog = <<>>
  /\ scopes = <<>>
  /\ raised = FALSE
  /\ gens = <<>>
  /\ steps = 0
  /\ \E n \in 0..MaxCoords : \E coords \in [1..n -> CoordVals] :
       \E mesh_size \in MeshSizeArgs(n) : \E labels \in LabelsArgs(n) :
         \E cell_counts \in CellCountsArgs(n) : \E mesh_types \in MeshTypesArgs(n) :
           \E mesh_coeffs \in MeshCoeffsArgs(n) :
             gpl_args = gpl_call(coords, mesh_size, labels, cell_counts,
                                 mesh_types, mesh_coeffs)
  /\ gpl_ret = NoCall

\* points, lines = get_points_and_lines(coords, mesh_size, labels, ...)
GetPointsAndLines ==
  /\ gpl_ret = NoCall
  /\ gpl_ret' = get_points_and_lines(gpl_args)
  /\ UNCHANGED <<scn, tag, before_sync_initiated, after_sync_initiated, line_tags,
                 klog, scopes, raised, gens, steps, gpl_args>>

BuilderNext == GetPointsAndLines

BuilderSpec == BuilderInit /\ [][BuilderNext]_vars

\* ================================================================= claims
\* Kernel calls by kind.
CreationCalls == {"add_point", "add_line", "add_curve_loop", "add_plane_surface"}

Phase2Calls == {"add_physical_group", "set_physical_name", "set_transfinite_curve",
                "set_transfinite_surface", "set_recombine", "field.add",
                "field.setNumbers", "field.setNumber", "field.setAsBoundaryLayer"}

\* The positions in the kernel log of generate call k's calls of the kinds cs.
GenIdx(k, cs) == {i \in 1..Len(klog) : klog[i].gen = k /\ klog[i].call \in cs}

\* The positions of the calls of the kinds cs that entity e issued.
EntIdx(e, cs) == {i \in 1..Len(klog) : klog[i].by = e /\ klog[i].call \in cs}

\* The entities that are created in the kernel in phase 1.
Constructible == G.ents \ Fields

\* ---------------------------------------------------------------------- C1
\* C1: every generate call issues at most one synchronize, and exactly one
\* when it returns; every creation call it makes, for all roots, precedes the
\* synchronize; every phase-2 call it makes follows the synchronize and
\* precedes the mesh generation request, of which a returning call issues
\* exactly one.
C1_GenerateTwoPhases ==
  \A k \in 1..Len(gens) :
    LET S == GenIdx(k, {"synchronize"})
        M == GenIdx(k, {"mesh.generate"})
    IN /\ Cardinality(S) <= 1
       /\ Cardinality(M) <= 1
       /\ ~gens[k].raised => Cardinality(S) = 1 /\ Cardinality(M) = 1
       /\ \A i \in GenIdx(k, CreationCalls) : \A s \in S : i < s
       /\ \A i \in GenIdx(k, Phase2Calls) :
            /\ \E s \in S : s < i
            /\ \A m \in M : i < m
       /\ \A s \in S : \A m \in M : s < m

\* A generate call on a list of roots has returned, having made creation
\* calls and phase-2 calls.
C1_Witness ==
  \E k \in 1..Len(gens) :
    /\ ~gens[k].raised
    /\ gens[k].list
    /\ Len(gens[k].items) = 2
    /\ GenIdx(k, CreationCalls) # {}
    /\ GenIdx(k, Phase2Calls) # {}

\* ---------------------------------------------------------------------- C2
\* C2: whatever before_sync calls were made, directly or through generate, on
\* a graph with shared Points, Lines and CurveLoops: an entity has at most
\* one successful kernel creation call, exactly one once it is constructed,
\* none issued after it, and its tag is the one that call returned (so the
\* tag never changes afterwards).
C2_CreatedOnce ==
  \A e \in Constructible :
    LET C == EntIdx(e, CreationCalls)
        Ok == {i \in C : klog[i].ok}
    IN /\ Cardinality(Ok) <= 1
       /\ before_sync_initiated[e] => Cardinality(Ok) = 1
       /\ \A i \in Ok : tag[e] = klog[i].ret /\ \A j \in C : j <= i
       /\ Ok = {} => tag[e] = 0

\* The surface with a hole is constructed, loops and all, after before_sync
\* reached its shared line l0 and shared points more than once, over at least
\* two calls of the caller.
C2_Witness ==
  /\ scn = 3
  /\ before_sync_initiated["s0"]
  /\ before_sync_initiated["c0"]
  /\ before_sync_initiated["c1"]
  /\ steps >= 2
  /\ Cardinality({i \in 1..Len(klog) : klog[i].call = "add_point" /\ klog[i].ok}) = 3

\* ---------------------------------------------------------------------- C3
\* The entities an entity structurally depends on, in declared order.
Deps(e) ==
  CASE cls(e) \in {"Line", "TransfiniteLine"} -> <<G.start[e], G.end[e]>>
    [] cls(e) = "CurveLoop" -> G.lines[e]
    [] cls(e) \in {"PlaneSurface", "TransfinitePlaneSurface"} -> curve_loops(e)
    [] OTHER -> <<>>

\* The tag the kernel gave entity d in a creation call that completed before
\* position i of the log (0: none had).
CreatedBefore(d, i) ==
  LET J == {j \in EntIdx(d, CreationCalls) : j < i /\ klog[j].ok}
  IN IF J = {} THEN 0 ELSE klog[CHOOSE j \in J : TRUE].ret

\* C3: every creation call of a Line, CurveLoop or surface is issued after
\* the creation calls of all its dependencies have completed, and is passed
\* exactly their tags, none of them None, in declared order.
C3_DependenciesFirst ==
  \A e \in Constructible :
    cls(e) # "Point" =>
      \A i \in EntIdx(e, CreationCalls) :
        /\ \A k \in 1..Len(Deps(e)) : CreatedBefore(Deps(e)[k], i) # 0
        /\ klog[i].args = [k \in 1..Len(Deps(e)) |-> CreatedBefore(Deps(e)[k], i)]

\* ---------------------------------------------------------------------- C4
\* The loop's distinct labels, in the order of their first line.
LoopLabels(c) ==
  LET n == Len(G.lines[c])
      lab(i) == G.label[G.lines[c][i]]
      F == {i \in 1..n : TruthyStr(lab(i)) /\ \A j \in 1..(i - 1) : lab(j) # lab(i)}
  IN [k \in 1..Cardinality(F) |->
        lab(CHOOSE i \in F : Cardinality({j \in F : j < i}) = k - 1)]

\* The tags of the loop's lines that carry label L, in line order.
LabelMembers(c, L) ==
  LET ls == SelectSeq(G.lines[c], LAMBDA l : G.label[l] = L)
  IN [k \in 1..Len(ls) |-> tag[ls[k]]]

\* The physical-group calls loop c issued in the caller's step s, in order.
GroupCalls(c, s) ==
  SelectSeq(klog, LAMBDA r : /\ r.by = c
                             /\ r.step = s
                             /\ r.call \in {"add_physical_group", "set_physical_name"})

\* Loop c was constructed before it issued the first of its calls in step s.
ConstructedBeforeStep(c, s) ==
  \E j \in EntIdx(c, {"add_curve_loop"}) :
    /\ klog[j].ok
    /\ \A i \in EntIdx(c, Phase2Calls) : klog[i].step = s => j < i

\* The last step in which loop c issued a physical-group call (0: none).
LastGroupStep(c) ==
  LET S == {s \in 1..steps : GroupCalls(c, s) # <<>>}
  IN IF S = {} THEN 0 ELSE CHOOSE s \in S : \A r \in S : r <= s

\* C4: one refinement of a constructed CurveLoop issues, for its distinct
\* labels in order, add_physical_group at curve dimension with the tags of
\* exactly the lines carrying the label, in line order, and then
\* set_physical_name of that group with the label, and no other group call
\* (none for unlabelled lines); a refinement that a failing kernel call cuts
\* short issues a prefix of these, one that completes issues them all.
C4_LabelGroups ==
  \A c \in Loops \cap G.ents : \A s \in 1..steps :
    ConstructedBeforeStep(c, s) =>
      LET P == GroupCalls(c, s)
          L == LoopLabels(c)
      IN /\ Len(P) <= 2 * Len(L)
         /\ \A n \in 1..Len(P) :
              IF n % 2 = 1
              THEN /\ P[n].call = "add_physical_group"
                   /\ P[n].args = <<DimCurve>> \o LabelMembers(c, L[(n + 1) \div 2])
              ELSE /\ P[n].call = "set_physical_name"
                   /\ P[n].args = <<DimCurve, P[n - 1].ret>>
                   /\ P[n].name = L[n \div 2]
         /\ after_sync_initiated[c] /\ s = LastGroupStep(c) => Len(P) = 2 * Len(L)

\* The loop with the labels A, A, B, None was refined after it was
\* constructed: a group of two members named A, a group of one named B.
C4_Witness ==
  /\ scn = 2
  /\ after_sync_initiated["c0"]
  /\ LastGroupStep("c0") # 0
  /\ ConstructedBeforeStep("c0", LastGroupStep("c0"))
  /\ LET P == GroupCalls("c0", LastGroupStep("c0"))
     IN /\ Len(P) = 4
        /\ Len(P[1].args) = 3 /\ P[2].name = "A"
        /\ Len(P[3].args) = 2 /\ P[4].name = "B"

\* ---------------------------------------------------------------------- C5
\* The lines reachable from an entity.
LinesOf(e) ==
  CASE cls(e) \in {"Line", "TransfiniteLine"} -> {e}
    [] cls(e) = "CurveLoop" -> {G.lines[e][i] : i \in 1..Len(G.lines[e])}
    [] cls(e) \in {"PlaneSurface", "TransfinitePlaneSurface"} ->
         UNION {{G.lines[curve_loops(e)[n]][i] : i \in 1..Len(G.lines[curve_loops(e)[n]])} :
                n \in 1..Len(curve_loops(e))}
    [] OTHER -> {}

\* The set of elements of a sequence, from position `from` on.
Range(s, from) == {s[i] : i \in from..Len(s)}

\* C5: in one generate call, the curve physical groups that are created have
\* distinct names, and the group named L holds the tags of all the
\* curves reachable from the roots that carry L, in whichever loop they lie.
C5_OneGroupPerLabel ==
  \A k \in 1..Len(gens) :
    LET N == {i \in GenIdx(k, {"set_physical_name"}) :
                klog[i].ok /\ klog[i].args[1] = DimCurve}
        reach == UNION {LinesOf(gens[k].items[n]) : n \in 1..Len(gens[k].items)}
    IN \A i \in N :
         /\ \A j \in N : klog[j].name = klog[i].name => j = i
         /\ Range(klog[i - 1].args, 2) =
              {tag[l] : l \in {m \in reach : G.label[m] = klog[i].name}}

\* ---------------------------------------------------------------------- C6
\* C6: after_sync on an entity whose before_sync has not completed fails:
\* no entity is marked refinement-done before it is construction-done, and
\* no entity issues a phase-2 call before its creation call has completed.
C6_RefineNeedsConstruct ==
  \A e \in G.ents :
    /\ after_sync_initiated[e] => before_sync_initiated[e]
    /\ e \in Constructible =>
         \A i \in EntIdx(e, Phase2Calls) : CreatedBefore(e, i) # 0

\* ---------------------------------------------------------------------- C7
\* The positions of the successful initialize calls, and of the finalize
\* calls, in the kernel log.
InitIdx == {i \in 1..Len(klog) : klog[i].call = "initialize" /\ klog[i].ok}

FinalIdx == {i \in 1..Len(klog) : klog[i].call = "finalize"}

\* C7: every with block that was entered and has been left, normally or by an
\* exception of generate or write, has asked the kernel to release the
\* session exactly once (the finalize calls are as many as the blocks left),
\* and when no block is open any more the kernel session is not live, unless
\* the kernel failed to carry out a finalize.
C7_SessionReleased ==
  /\ Cardinality(FinalIdx) + Len(scopes) = Cardinality(InitIdx)
  /\ (scopes = <<>> /\ \A i \in FinalIdx : klog[i].ok) => ~KernelLive(klog)

\* A kernel call of generate or write failed inside a with block, and the
\* exception has left the block, which finalized the kernel on its way.
C7_Witness ==
  /\ raised
  /\ scopes = <<>>
  /\ Len(klog) >= 3
  /\ klog[Len(klog)].call = "finalize"
  /\ klog[Len(klog)].ok
  /\ ~klog[Len(klog) - 1].ok
  /\ klog[Len(klog) - 1].call \in {"write", "synchronize", "set_transfinite_curve"}

\* ---------------------------------------------------------------------- C8
\* The session state of Geometry object g when the call at position i of the
\* log was issued: Unopened until its first successful initialize, Open after
\* an initialize, Closed after a finalize.
LifecycleAt(g, i) ==
  LET I == {j \in 1..(i - 1) : /\ klog[j].by = g
                               /\ klog[j].call \in {"initialize", "finalize"}
                               /\ klog[j].ok}
  IN IF I = {} THEN "Unopened"
     ELSE IF klog[CHOOSE j \in I : \A m \in I : m <= j].call = "initialize"
          THEN "Open" ELSE "Closed"

\* C8: generate and write issue kernel calls only on an Open session, and
\* initialize is never issued while a kernel session is live.
C8_LifecycleEnforced ==
  \A i \in 1..Len(klog) :
    /\ klog[i].gen > 0 => LifecycleAt(gens[klog[i].gen].g, i) = "Open"
    /\ klog[i].call = "write" => LifecycleAt(klog[i].by, i) = "Open"
    /\ klog[i].call = "initialize" => ~KernelLive(SubSeq(klog, 1, i - 1))

\* ---------------------------------------------------------------------- C9
\* C9: a kernel call that fails during generate is the last call that
\* generate call issues (no retry, no synchronize, no refinement call, no mesh
\* generation request after it), and the generate call raises.
C9_FailFast ==
  \A i \in 1..Len(klog) :
    (klog[i].gen > 0 /\ ~klog[i].ok) =>
      /\ gens[klog[i].gen].raised
      /\ \A j \in (i + 1)..Len(klog) : klog[j].gen # klog[i].gen

\* A kernel call of the construction phase has failed in one generate call,
\* and a call of the refinement phase in a generate call (the same graph,
\* retried, or another).
C9_Witness ==
  /\ \E i \in 1..Len(klog) :
       klog[i].gen > 0 /\ ~klog[i].ok /\ klog[i].call \in Phase2Calls
  /\ gens # <<>>
  /\ gens[Len(gens)].raised

\* A kernel call of the construction phase of generate has failed.
C9_WitnessPhase1 ==
  \E i \in 1..Len(klog) :
    klog[i].gen > 0 /\ ~klog[i].ok /\ klog[i].call \in CreationCalls

\* --------------------------------------------------------------------- C10
\* The phase-2 calls whose arguments carry a handle the kernel assigned in
\* phase 2 (a physical-group tag, a field tag).
HandleCalls == {"set_physical_name", "field.setNumbers", "field.setNumber",
                "field.setAsBoundaryLayer"}

\* Two log entries are the same phase-2 call.
SameCall(r1, r2) ==
  /\ r1.call = r2.call
  /\ r1.name = r2.name
  /\ r1.call \notin HandleCalls => r1.args = r2.args

\* C10: however often after_sync and generate are called, a constructed
\* entity performs each of its phase-2 kernel calls (group creation and
\* naming, transfinite constraint, recombine, field creation and settings)
\* once in total.
C10_RefinedOnce ==
  \A e \in G.ents :
    \A i, j \in EntIdx(e, Phase2Calls) :
      ( /\ i < j
        /\ klog[i].ok
        /\ klog[j].ok
        /\ e \in Constructible => CreatedBefore(e, i) # 0 )
      => ~SameCall(klog[i], klog[j])

\* --------------------------------------------------------------------- C11
\* The calls of the kinds cs that generate call k issued, in order.
GenCalls(k, cs) == SelectSeq(klog, LAMBDA r : r.gen = k /\ r.call \in cs)

\* Generate call k found the kernel untouched: its first call is the first
\* call of the log.
FirstUse(k) == klog # <<>> /\ klog[1].gen = k

\* C11: on the unit square (one transfinite surface "domain", quad, four
\* corners; one loop of four TransfiniteLines over four shared Points, two
\* lines labelled "wall"), a generate call on the surface that returns issues
\* exactly 4 add_point, 4 add_line, 1 add_curve_loop, 1 add_plane_surface;
\* one curve group of 2 members named "wall", one surface group of 1 member
\* named "domain", 4 set_transfinite_curve, 1 set_transfinite_surface and
\* 1 set_recombine, and no other call of these kinds.
C11_SquareEndToEnd ==
  \A k \in 1..Len(gens) :
    ( /\ scn = 1
      /\ gens[k].items = <<"s0">>
      /\ ~gens[k].raised
      /\ FirstUse(k) )
    => /\ Len(GenCalls(k, {"add_point"})) = 4
       /\ Len(GenCalls(k, {"add_line"})) = 4
       /\ Len(GenCalls(k, {"add_curve_loop"})) = 1
       /\ Len(GenCalls(k, {"add_plane_surface"})) = 1
       /\ Len(GenCalls(k, {"set_transfinite_curve"})) = 4
       /\ Len(GenCalls(k, {"set_transfinite_surface"})) = 1
       /\ Len(GenCalls(k, {"set_recombine"})) = 1
       /\ LET P == GenCalls(k, {"add_physical_group", "set_physical_name"})
          IN /\ Len(P) = 4
             /\ P[1].call = "add_physical_group"
             /\ P[1].args = <<DimCurve, tag["l0"], tag["l2"]>>
             /\ P[2].call = "set_physical_name"
             /\ P[2].args = <<DimCurve, P[1].ret>> /\ P[2].name = "wall"
             /\ P[3].call = "add_physical_group"
             /\ P[3].args = <<DimSurface, tag["s0"]>>
             /\ P[4].call = "set_physical_name"
             /\ P[4].args = <<DimSurface, P[3].ret>> /\ P[4].name = "domain"
       /\ GenCalls(k, {"field.add", "field.setNumbers", "field.setNumber",
                       "field.setAsBoundaryLayer"}) = <<>>

\* The square's surface has been generated from scratch, and the call
\* returned.
C11_Witness ==
  /\ scn = 1
  /\ gens # <<>>
  /\ gens[1].items = <<"s0">>
  /\ ~gens[1].raised
  /\ FirstUse(1)
  /\ after_sync_initiated["s0"]

\* --------------------------------------------------------------------- C12
\* The lines reachable from the roots of generate call k.
ReachLines(k) == UNION {LinesOf(gens[k].items[n]) : n \in 1..Len(gens[k].items)}

\* Line l was never refined before it was constructed.
RefinedAfterConstructed(l) ==
  \A i \in EntIdx(l, Phase2Calls) : CreatedBefore(l, i) # 0

\* C12: once a generate call has returned, every TransfiniteLine reachable
\* from its roots (and not refined by the caller before it was constructed)
\* has exactly one completed set_transfinite_curve call, issued in phase 2
\* of a generate call or by the line's own after_sync, carrying the line's
\* own tag, cell_count + 1 nodes, its grading type and its coefficient; a
\* plain Line has no such call at all.
C12_TransfiniteCurve ==
  \A k \in 1..Len(gens) : \A l \in ReachLines(k) :
    LET T == EntIdx(l, {"set_transfinite_curve"})
        Ok == {i \in T : klog[i].ok}
    IN /\ cls(l) = "Line" => T = {}
       /\ (cls(l) = "TransfiniteLine" /\ ~gens[k].raised /\ RefinedAfterConstructed(l)) =>
            /\ Cardinality(Ok) = 1
            /\ \A i \in Ok :
                 /\ tag[l] # 0
                 /\ klog[i].args = <<tag[l], G.cell_count[l] + 1, G.coeff[l]>>
                 /\ klog[i].name = G.mesh_type[l]
                 /\ klog[i].gen > 0 =>
                      \E s \in GenIdx(klog[i].gen, {"synchronize"}) : s < i

\* The single segment with cell_count = 4 has been generated: the constraint
\* carries 5 nodes.
C12_Witness ==
  /\ scn = SessionGraph
  /\ gens # <<>>
  /\ ~gens[Len(gens)].raised
  /\ \E i \in EntIdx("l0", {"set_transfinite_curve"}) :
       klog[i].ok /\ klog[i].args[2] = 5 /\ klog[i].gen = Len(gens)

\* --------------------------------------------------------------------- C13
\* The lines of loop c form a closed cycle: the end of line i is the start
\* of line i + 1 (mod n).
Closed(c) ==
  LET ls == G.lines[c]
  IN \A i \in 1..Len(ls) : G.end[ls[i]] = G.start[ls[(i % Len(ls)) + 1]]

\* Closed loops are accepted: a constructed closed loop holds a tag, and
\* nothing but a failing kernel call raises.
ClosedAccepted ==
  /\ \A c \in Loops \cap G.ents :
       (Closed(c) /\ before_sync_initiated[c]) => tag[c] # 0
  /\ raised => (klog # <<>> /\ ~klog[Len(klog)].ok)

\* C13: a closed CurveLoop is accepted, and a CurveLoop whose lines do not
\* close is never constructed: it is assigned no curve-loop tag.
C13_ClosureChecked ==
  /\ ClosedAccepted
  /\ \A c \in Loops \cap G.ents :
       ~Closed(c) => (tag[c] = 0 /\ ~before_sync_initiated[c])

\* --------------------------------------------------------------------- C14
\* The entities whose phase-2 calls the refinement of surface s issues: the
\* surface, its loops, their lines and their fields.
RefinedWith(s) ==
  {s} \cup LinesOf(s)
      \cup {curve_loops(s)[n] : n \in 1..Len(curve_loops(s))}
      \cup UNION {{G.fields[curve_loops(s)[n]][i] :
                     i \in 1..Len(G.fields[curve_loops(s)[n]])} :
                  n \in 1..Len(curve_loops(s))}

\* The set_transfinite_surface calls of the transfinite surfaces.
ConstraintIdx(s) == EntIdx(s, {"set_transfinite_surface"})

\* The other phase-2 calls of the caller's step in which call i was issued,
\* by the entities es.
StepIdx(i, es) ==
  {j \in 1..Len(klog) : /\ j # i
                        /\ klog[j].step = klog[i].step
                        /\ klog[j].by \in es
                        /\ klog[j].call \in Phase2Calls}

\* The surface is the only entity the caller asked to refine in the step of
\* call i (the one root of the generate call, or a direct after_sync).
OnlyRoot(s, i) == klog[i].gen > 0 => gens[klog[i].gen].items = <<s>>

\* C14: the structured-surface constraint of a transfinite surface
\* is issued after the refinement calls of its loops, lines and fields and
\* after its own physical group and recombine directive.
C14_ConstraintAfterBase ==
  \A s \in Surfaces \cap G.ents : \A i \in ConstraintIdx(s) :
    \A j \in StepIdx(i, RefinedWith(s)) : j < i

\* What the code does instead: the structured-surface constraint is issued
\* before the base refine.  The set_transfinite_surface call of a
\* TransfinitePlaneSurface precedes the surface's own physical group and
\* recombine directive, and (the surface being the only entity refined in
\* that step) every refinement call of its loops, lines and fields; a plain
\* PlaneSurface issues none; on a constructed surface the call carries the
\* surface's tag and the tags of the declared corner Points, in order.
ConstraintBeforeBase ==
  \A s \in Surfaces \cap G.ents :
    /\ cls(s) = "PlaneSurface" => ConstraintIdx(s) = {}
    /\ \A i \in ConstraintIdx(s) :
         /\ \A j \in StepIdx(i, {s}) : i < j
         /\ OnlyRoot(s, i) => \A j \in StepIdx(i, RefinedWith(s)) : i < j
         /\ CreatedBefore(s, i) # 0 =>
              klog[i].args = <<tag[s]>> \o [n \in 1..Len(G.corners[s]) |-> tag[G.corners[s][n]]]
    /\ (cls(s) = "TransfinitePlaneSurface" /\ after_sync_initiated[s]) =>
         \E i \in ConstraintIdx(s) : klog[i].ok

\* --------------------------------------------------------------------- C15
\* The lines and the fields of loop c, as sets.
LoopLines(c) == {G.lines[c][i] : i \in 1..Len(G.lines[c])}

LoopFields(c) == {G.fields[c][i] : i \in 1..Len(G.fields[c])}

\* The physical-group calls of loop c.
GroupIdx(c) == EntIdx(c, {"add_physical_group", "set_physical_name"})

\* C15: in the refinement of a CurveLoop, when a physical group of the loop
\* is created every TransfiniteLine of the loop has its constraint in place
\* and no line of the loop issues a refinement call later in that step; on a
\* loop refined after it was constructed, the members of each group are tags
\* the kernel assigned to lines of the loop before (in a generate call:
\* before the synchronize); and every call of the loop's fields in that step
\* comes after all the loop's group creations and namings.
C15_LoopRefineOrder ==
  \A c \in Loops \cap G.ents : \A i \in GroupIdx(c) :
    /\ \A l \in LoopLines(c) :
         cls(l) = "TransfiniteLine" =>
           \E j \in EntIdx(l, {"set_transfinite_curve"}) : j < i /\ klog[j].ok
    /\ \A j \in StepIdx(i, LoopLines(c)) : j < i
    /\ \A j \in StepIdx(i, LoopFields(c)) : i < j
    /\ (klog[i].call = "add_physical_group" /\ ConstructedBeforeStep(c, klog[i].step)) =>
         \A n \in 2..Len(klog[i].args) :
           \E l \in LoopLines(c) :
             /\ CreatedBefore(l, i) = klog[i].args[n]
             /\ klog[i].args[n] # 0
             /\ klog[i].gen > 0 =>
                  \E s \in GenIdx(klog[i].gen, {"synchronize"}) :
                    \E m \in EntIdx(l, CreationCalls) :
                      klog[m].ok /\ m < s /\ s < i

\* The loop with labels A, A, B, None, a TransfiniteLine and a BoundaryLayer
\* has been refined in a generate call: its line's constraint, its two
\* groups and its field's calls are all in the log.
C15_Witness ==
  /\ scn = 2
  /\ after_sync_initiated["c0"]
  /\ after_sync_initiated["f0"]
  /\ \E i \in GroupIdx("c0") :
       /\ klog[i].gen > 0
       /\ klog[i].name = "B"
       /\ StepIdx(i, LoopLines("c0")) # {}
       /\ Cardinality(StepIdx(i, LoopFields("c0"))) >= 4

\* --------------------------------------------------------------------- C16
\* The keys of the optional numeric attributes of a BoundaryLayer and of its
\* two boolean attributes, and the attribute each key is set from.
NumberKeys == {"AnisoMax", "hfar", "hwall_n", "ratio", "thickness"}

BoolKeys == {"IntersectMetrics", "Quads"}

AttrVal(f, key) ==
  CASE key = "AnisoMax" -> G.attrs[f].aniso_max
    [] key = "hfar" -> G.attrs[f].hfar
    [] key = "hwall_n" -> G.attrs[f].hwall_n
    [] key = "ratio" -> G.attrs[f].ratio
    [] key = "thickness" -> G.attrs[f].thickness
    [] key = "IntersectMetrics" -> G.attrs[f].intersect_metrics
    [] key = "Quads" -> BoolNum(G.is_quad_mesh[f])

\* The calls field f issued in caller step s, in order.
FieldCalls(f, s) == SelectSeq(klog, LAMBDA r : r.by = f /\ r.step = s)

\* Loop c was constructed before field f issued its first call of step s.
ConstructedBeforeField(c, f, s) ==
  \E j \in EntIdx(c, {"add_curve_loop"}) :
    /\ klog[j].ok
    /\ \A i \in 1..Len(klog) : (klog[i].by = f /\ klog[i].step = s) => j < i

\* A numeric attribute was given a value when the field was built.
Provided(v) == v # NoneVal

\* A refinement of field f that ran to its end in step s, on a loop that was
\* constructed before: one field.add first, then CurvesList with the returned
\* tag and the tags of the loop's lines, then one setNumber with the
\* attribute's value for exactly the numeric attributes that satisfy Given
\* and the boolean attributes that are true, and setAsBoundaryLayer last.
FieldRefinement(f, s, Given(_)) ==
  LET Q == FieldCalls(f, s)
      n == Len(Q)
      c == OwnerLoop(f)
  IN (/\ n > 0
      /\ Q[n].call = "field.setAsBoundaryLayer"
      /\ Q[n].ok
      /\ ConstructedBeforeField(c, f, s)) =>
       /\ n >= 3
       /\ Q[1].call = "field.add"
       /\ \A m \in 2..n : Q[m].call # "field.add"
       /\ Q[2].call = "field.setNumbers"
       /\ Q[2].name = "CurvesList"
       /\ Q[2].args[1] = Q[1].ret
       /\ Range(Q[2].args, 2) = {tag[l] : l \in LoopLines(c)}
       /\ \A m \in 3..(n - 1) :
            /\ Q[m].call = "field.setNumber"
            /\ Q[m].name \in NumberKeys \cup BoolKeys
            /\ Q[m].args = <<Q[1].ret, AttrVal(f, Q[m].name)>>
            /\ \A r \in 3..(n - 1) : Q[r].name = Q[m].name => r = m
       /\ \A key \in NumberKeys :
            (\E m \in 3..(n - 1) : Q[m].name = key) <=> Given(AttrVal(f, key))
       /\ \A key \in BoolKeys :
            (\E m \in 3..(n - 1) : Q[m].name = key) <=> AttrVal(f, key) = 1
       /\ Q[n].args = <<Q[1].ret>>

\* C16: a BoundaryLayer refined on a constructed loop creates one field, keys
\* it to the loop's line tags, sets every optional attribute that was
\* provided, a provided 0 included, and no other, and issues
\* setAsBoundaryLayer last.
C16_ProvidedAttributesSet ==
  \A f \in Fields \cap G.ents : \A s \in 1..steps : FieldRefinement(f, s, Provided)

\* What the code does instead: the attributes that are set are the ones whose
\* value is neither None nor 0.
C16_TruthyAttributesSet ==
  \A f \in Fields \cap G.ents : \A s \in 1..steps : FieldRefinement(f, s, TruthyNum)

\* --------------------------------------------------------------------- C17
\* How often v occurs in the sequence s, from position `from` on.
Occurrences(s, from, v) == Cardinality({i \in from..Len(s) : s[i] = v})

\* How often line l occurs in the lines of loop c.
LineOccurrences(c, l) == Cardinality({i \in 1..Len(G.lines[c]) : G.lines[c][i] = l})

\* The calls that are passed the list of line tags of loop c: its own
\* add_curve_loop (tags from position 1) and the CurvesList of its fields
\* (tags from position 2, after the field's tag).
TagListCalls(c) ==
  {i \in 1..Len(klog) :
     \/ klog[i].by = c /\ klog[i].call = "add_curve_loop"
     \/ klog[i].by \in LoopFields(c) /\ klog[i].call = "field.setNumbers"}

TagsFrom(i) == IF klog[i].call = "add_curve_loop" THEN 1 ELSE 2

\* C17: after any sequence of before_sync calls, failed and retried ones
\* included, the line_tags of a loop is empty or holds exactly the tag of
\* each of its lines, in order; and no tag list passed to add_curve_loop or
\* to CurvesList holds the tag of a line more often than the line occurs in
\* the loop.
C17_LineTagsConsistent ==
  \A c \in Loops \cap G.ents :
    /\ \/ line_tags[c] = <<>>
       \/ /\ Len(line_tags[c]) = Len(G.lines[c])
          /\ \A i \in 1..Len(G.lines[c]) : line_tags[c][i] = tag[G.lines[c][i]]
    /\ \A i \in TagListCalls(c) : \A l \in LoopLines(c) :
         tag[l] # 0 =>
           Occurrences(klog[i].args, TagsFrom(i), tag[l]) <= LineOccurrences(c, l)

\* The part of C17 about the lists handed to the kernel, alone.
C17_NoDuplicateTagsPassed ==
  \A c \in Loops \cap G.ents : \A i \in TagListCalls(c) : \A l \in LoopLines(c) :
    tag[l] # 0 =>
      Occurrences(klog[i].args, TagsFrom(i), tag[l]) <= LineOccurrences(c, l)

\* --------------------------------------------------------------------- C18
\* All the positions of the log that belong to generate call k.
GenAll(k) == {i \in 1..Len(klog) : klog[i].gen = k}

\* Between generate calls k1 and k2 the session was closed and a new one was
\* opened: a completed finalize and, after it, a completed initialize lie
\* after every call of k1 and before every call of k2.
SessionBetween(k1, k2) ==
  \E f \in FinalIdx : \E n \in InitIdx :
    /\ klog[f].ok
    /\ klog[n].ok
    /\ f < n
    /\ \A i \in GenAll(k1) : i < f
    /\ \A i \in GenAll(k2) : n < i

\* The loops reachable from an entity: a loop itself, the outlines and holes
\* of a surface.
LoopsOf(e) ==
  CASE cls(e) = "CurveLoop" -> {e}
    [] cls(e) \in {"PlaneSurface", "TransfinitePlaneSurface"} ->
         {curve_loops(e)[n] : n \in 1..Len(curve_loops(e))}
    [] OTHER -> {}

\* The loops reachable from the roots of generate call k.
ReachLoops(k) == UNION {LoopsOf(gens[k].items[n]) : n \in 1..Len(gens[k].items)}

\* The entities generate call k reaches from its roots: the roots, the loops
\* of the surfaces, the fields and the lines of the loops, and the end
\* points of the lines.
ReachEnts(k) ==
  {gens[k].items[n] : n \in 1..Len(gens[k].items)}
    \cup ReachLoops(k)
    \cup UNION {LoopFields(c) : c \in ReachLoops(k)}
    \cup ReachLines(k)
    \cup {G.start[l] : l \in ReachLines(k)} \cup {G.end[l] : l \in ReachLines(k)}

\* C18: when a generate call has returned, its session has been closed and a
\* new session opened, a generate call on the same roots issues no creation
\* call and no phase-2 call, only synchronize and the mesh generation calls,
\* and every entity still carries the tag its creation call returned in the
\* earlier session.
C18_FlagsOutliveSession ==
  \A k1 \in 1..Len(gens) : \A k2 \in (k1 + 1)..Len(gens) :
    (/\ ~gens[k1].raised
     /\ gens[k2].items = gens[k1].items
     /\ SessionBetween(k1, k2)) =>
       /\ \A i \in GenAll(k2) :
            klog[i].call \in {"synchronize", "mesh.generate", "option.set_number",
                              "import_from_gmsh"}
       /\ \A e \in ReachEnts(k1) :
            /\ before_sync_initiated[e]
            /\ e \notin Points => after_sync_initiated[e]
            /\ tag[e] # 0
            /\ \E j \in EntIdx(e, TagCalls \ {"add_physical_group"}) :
                 /\ klog[j].ok
                 /\ klog[j].ret = tag[e]
                 /\ \A i \in GenAll(k2) : j < i
                 /\ \A m \in EntIdx(e, TagCalls \ {"add_physical_group"}) :
                      klog[m].ok => m = j

\* Two sessions, each with a generate call on the segment that returned.
C18_Witness ==
  /\ Len(gens) = 2
  /\ ~gens[1].raised
  /\ ~gens[2].raised
  /\ SessionBetween(1, 2)
  /\ Cardinality(GenIdx(2, {"synchronize", "mesh.generate"})) = 2

\* --------------------------------------------------------------------- C19
\* The call was made on n >= 1 coordinates.
CalledOnCoords == gpl_ret # NoCall /\ Len(gpl_args.coords) >= 1

\* The result is n points at the given coordinates and n lines that form a
\* closed cycle over them: line k (from 0) runs from points[k] to
\* points[(k + 1) mod n], a reference being a position in points.
ClosedCycle ==
  /\ gpl_ret.state = "returned"
  /\ Len(gpl_ret.points) = Len(gpl_args.coords)
  /\ Len(gpl_ret.lines) = Len(gpl_args.coords)
  /\ \A k \in 1..Len(gpl_args.coords) :
       /\ gpl_ret.points[k].coord = gpl_args.coords[k]
       /\ gpl_ret.lines[k].start = k
       /\ gpl_ret.lines[k].end = (k % Len(gpl_args.coords)) + 1

\* C19 as stated: n points and n lines in a closed cycle over shared points;
\* every line is a TransfiniteLine when cell_counts is given (is not None)
\* and a Line otherwise; line k carries labels[k] when labels is a list and
\* labels itself when it is a string.
C19_ClosedCycleGiven ==
  CalledOnCoords =>
    /\ ClosedCycle
    /\ \A k \in 1..Len(gpl_args.coords) :
         /\ gpl_ret.lines[k].cls =
              IF gpl_args.cell_counts # None THEN "TransfiniteLine" ELSE "Line"
         /\ gpl_args.labels.k = "list" => gpl_ret.lines[k].label = gpl_args.labels.l[k]
         /\ gpl_args.labels.k = "str" => gpl_ret.lines[k].label = gpl_args.labels.s

\* C19, with `given` read as the code reads it: n points and n lines in a
\* closed cycle over shared points; every line is a TransfiniteLine when
\* cell_counts is neither None nor 0 and a Line otherwise; line k carries
\* labels[k] when labels is a list, labels itself when it is a non-empty
\* string, and no label when labels is None or the empty string.
C19_ClosedCycleTruthy ==
  CalledOnCoords =>
    /\ ClosedCycle
    /\ \A k \in 1..Len(gpl_args.coords) :
         /\ gpl_ret.lines[k].cls =
              IF gpl_args.cell_counts \notin {None, Num(0)}
              THEN "TransfiniteLine" ELSE "Line"
         /\ gpl_args.labels.k = "list" => gpl_ret.lines[k].label = gpl_args.labels.l[k]
         /\ gpl_args.labels.k = "str" =>
              gpl_ret.lines[k].label =
                IF gpl_args.labels.s = "" THEN NoLabel ELSE gpl_args.labels.s
         /\ gpl_args.labels = None => gpl_ret.lines[k].label = NoLabel

\* A call on three coordinates with a list of labels and a list of cell
\* counts has returned three TransfiniteLines, the last one ending at
\* points[0].
C19_Witness ==
  /\ gpl_ret.state = "returned"
  /\ Len(gpl_args.coords) = 3
  /\ gpl_args.labels = List(<<"a", "b", "a">>)
  /\ gpl_args.cell_counts.k = "list"
  /\ gpl_ret.lines[3].cls = "TransfiniteLine"
  /\ gpl_ret.lines[3].start = 3
  /\ gpl_ret.lines[3].end = 1
  /\ gpl_ret.lines[2].label = "b"

\* --------------------------------------------------------------------- C20
\* C20: when mesh_size is a list, points[i] carries mesh_size[i] for every
\* i; when it is a scalar, every point carries it.
C20_MeshSizeByIndex ==
  CalledOnCoords =>
    /\ gpl_ret.state = "returned"
    /\ \A i \in 1..Len(gpl_ret.points) :
         gpl_ret.points[i].mesh_size =
           IF gpl_args.mesh_size.k = "list" THEN gpl_args.mesh_size.l[i]
           ELSE gpl_args.mesh_size.n

\* What the code does instead: when mesh_size is a list every point carries
\* its first element.
C20_FirstMeshSizeEverywhere ==
  CalledOnCoords =>
    /\ gpl_ret.state = "returned"
    /\ \A i \in 1..Len(gpl_ret.points) :
         gpl_ret.points[i].mesh_size =
           IF gpl_args.mesh_size.k = "list" THEN gpl_args.mesh_size.l[1]
           ELSE gpl_args.mesh_size.n

====
